---- MODULE Spec2Model ----
(***************************************************************************)
(* biosnoop (libbpf-tools/biosnoop.c): the user-space side of the block    *)
(* I/O tracer.  The model follows main() statement by statement (set-up,   *)
(* polling loop, cleanup), the two perf-buffer callbacks handle_event and  *)
(* handle_lost_events, the SIGINT handler sig_int and the pure decoder     *)
(* blk_fill_rwbs.                                                          *)
(***************************************************************************)
EXTENDS Integers, Sequences, FiniteSets, TLC

(***************************************************************************)
(* Bounds of the model.                                                    *)
(***************************************************************************)
\* records the delivery channel hands to handle_event in one run
MaxEvents == 2
\* lost-event notifications the channel raises in one run
MaxLost == 1
\* largest record timestamp the instrumentation produces
MaxTs == 1
\* width, in bits, of the unsigned type that stands for __u64 timestamps
TsBits == 3
\* largest value the monotonic clock is followed to, in nanoseconds
MaxClock == 2000000000

(***************************************************************************)
(* Program constants.                                                      *)
(***************************************************************************)
\* trace_helpers.h; the factor of the deadline
NSEC_PER_SEC == 1000000000
\* the divisor 1000000000.0 of the TIME(s) column
SecDivisor == 1000000000
\* the divisor 1000000.0 of the QUE(ms) and LAT(ms) columns
MsDivisor == 1000000
\* errno values: the three named ones, and one that stands for any other
EINTR == 4
EBADF == 9
EINVAL == 22
ENOMEM == 12
RWBS_LEN == 8

\* blk_types.h: the operation lives in the low REQ_OP_BITS bits of cmd_flags
REQ_OP_BITS == 8
REQ_OP_MASK == 2^REQ_OP_BITS - 1
REQ_OP_READ == 0
REQ_OP_WRITE == 1
REQ_OP_FLUSH == 2
REQ_OP_DISCARD == 3
REQ_OP_SECURE_ERASE == 5
REQ_OP_WRITE_SAME == 7
REQ_SYNC == 2^11
REQ_META == 2^12
REQ_FUA == 2^17
REQ_PREFLUSH == 2^18
REQ_RAHEAD == 2^19

\* x & flag, for a single-bit flag
HasFlag(x, flag) == (x \div flag) % 2 = 1

\* the modulus of the unsigned timestamp type
TsMod == 2^TsBits

\* a - b in the unsigned timestamp type: the result wraps
SubU64(a, b) == (a - b) % TsMod

(***************************************************************************)
(* blk_fill_rwbs: the writes rwbs[i++] = c, as the sequence of characters  *)
(* written before the terminating NUL.                                     *)
(***************************************************************************)
\* RwbsOpClass with a three-character code for secure erase
RwbsOpClass_ThreeChars(op) ==
    LET o == op % (REQ_OP_MASK + 1) IN
    CASE o = REQ_OP_WRITE \/ o = REQ_OP_WRITE_SAME -> <<"W">>
      [] o = REQ_OP_DISCARD -> <<"D">>
      [] o = REQ_OP_SECURE_ERASE -> <<"D", "E", "S">>
      [] o = REQ_OP_FLUSH -> <<"F">>
      [] o = REQ_OP_READ -> <<"R">>
      [] OTHER -> <<"N">>

\* the switch on (op & REQ_OP_MASK)
RwbsOpClass(op) ==
    LET o == op % (REQ_OP_MASK + 1) IN
    CASE o = REQ_OP_WRITE \/ o = REQ_OP_WRITE_SAME -> <<"W">>
      [] o = REQ_OP_DISCARD -> <<"D">>
      [] o = REQ_OP_SECURE_ERASE -> <<"D", "E">>
      [] o = REQ_OP_FLUSH -> <<"F">>
      [] o = REQ_OP_READ -> <<"R">>
      [] OTHER -> <<"N">>

\* blk_fill_rwbs testing REQ_SYNC before REQ_RAHEAD
blk_fill_rwbs_SyncFirst(op) ==
       (IF HasFlag(op, REQ_PREFLUSH) THEN <<"F">> ELSE <<>>)
    \o RwbsOpClass(op)
    \o (IF HasFlag(op, REQ_FUA) THEN <<"F">> ELSE <<>>)
    \o (IF HasFlag(op, REQ_SYNC) THEN <<"S">> ELSE <<>>)
    \o (IF HasFlag(op, REQ_RAHEAD) THEN <<"A">> ELSE <<>>)
    \o (IF HasFlag(op, REQ_META) THEN <<"M">> ELSE <<>>)

blk_fill_rwbs(op) ==
       (IF HasFlag(op, REQ_PREFLUSH) THEN <<"F">> ELSE <<>>)
    \o RwbsOpClass(op)
    \o (IF HasFlag(op, REQ_FUA) THEN <<"F">> ELSE <<>>)
    \o (IF HasFlag(op, REQ_RAHEAD) THEN <<"A">> ELSE <<>>)
    \o (IF HasFlag(op, REQ_SYNC) THEN <<"S">> ELSE <<>>)
    \o (IF HasFlag(op, REQ_META) THEN <<"M">> ELSE <<>>)

\* the index i of rwbs[i] = '\0', the last write of blk_fill_rwbs
RwbsNulIndex(op) == Len(blk_fill_rwbs(op))

(***************************************************************************)
(* The device table (trace_helpers: partitions__load and its look-ups).    *)
(***************************************************************************)
MKDEV(ma, mi) == ma * 2^20 + mi
DevSda == MKDEV(8, 0)
DevSdb == MKDEV(8, 16)

\* what partitions__load reads: sda is listed, 8:16 is not
PartitionTable == { [name |-> "sda", dev |-> DevSda] }

\* the NULL partition pointer; a found partition is its table entry
NoPartition == [name |-> "NULL", dev |-> -1]

partitions__get_by_name(name) ==
    IF \E p \in PartitionTable : p.name = name
    THEN CHOOSE p \in PartitionTable : p.name = name
    ELSE NoPartition

partitions__get_by_dev(dev) ==
    IF \E p \in PartitionTable : p.dev = dev
    THEN CHOOSE p \in PartitionTable : p.dev = dev
    ELSE NoPartition

(***************************************************************************)
(* Inputs.                                                                 *)
(***************************************************************************)
\* env after argp_parse: disk is NULL or a name, duration is 0 or positive
Disks == {"NULL", "sda", "nvme9"}
Durations == {0, 1}
Envs == [disk : Disks, duration : Durations, queued : BOOLEAN, cg : BOOLEAN]

\* the shapes of record the instrumentation sends (all but the timestamp)
Shapes ==
    { [comm |-> "dd", pid |-> 100, dev |-> DevSda, cmd_flags |-> REQ_OP_WRITE,
       sector |-> 2048, len |-> 4096, qdelta |-> 1000000, delta |-> 2000000],
      [comm |-> "cat", pid |-> 200, dev |-> DevSda, cmd_flags |-> REQ_OP_READ,
       sector |-> 64, len |-> 512, qdelta |-> -1, delta |-> 500000],
      [comm |-> "jbd2", pid |-> 300, dev |-> DevSdb,
       cmd_flags |-> REQ_OP_FLUSH + REQ_PREFLUSH,
       sector |-> 0, len |-> 0, qdelta |-> -1, delta |-> 10000000] }

Event(s, t) ==
    [ts |-> t, comm |-> s.comm, pid |-> s.pid, dev |-> s.dev,
     cmd_flags |-> s.cmd_flags, sector |-> s.sector, len |-> s.len,
     qdelta |-> s.qdelta, delta |-> s.delta]

Events == { Event(s, t) : s \in Shapes, t \in 0..MaxTs }

\* the records the traced system can produce during one run: every shape
\* and timestamp when no duration and no cgroup is configured, one record of
\* the listed disk otherwise
OneRecord == { e \in Events : e.dev = DevSda /\ e.qdelta # -1 /\ e.ts = MaxTs }
Workloads(e) ==
    IF e.duration = 0 /\ ~e.cg THEN {OneRecord, Events} ELSE {OneRecord}

\* operation values in the low byte of cmd_flags: the six blk_fill_rwbs
\* names, and three it does not name
RwbsOps ==
    {REQ_OP_READ, REQ_OP_WRITE, REQ_OP_FLUSH, REQ_OP_DISCARD,
     REQ_OP_SECURE_ERASE, REQ_OP_WRITE_SAME, 4, 9, REQ_OP_MASK}

\* a cmd_flags bit blk_fill_rwbs never looks at (REQ_NOMERGE)
REQ_NOMERGE == 2^14

\* every operation of RwbsOps with every combination of the five flags
\* blk_fill_rwbs tests
TestedFlags ==
    { o + a * REQ_SYNC + b * REQ_META + c * REQ_FUA + d * REQ_PREFLUSH
        + g * REQ_RAHEAD :
      o \in RwbsOps, a \in 0..1, b \in 0..1, c \in 0..1, d \in 0..1,
      g \in 0..1 }

\* the bitmasks given to blk_fill_rwbs: TestedFlags, and two of them with
\* the bit that is not tested
CmdFlags ==
    TestedFlags \cup
    { m + REQ_NOMERGE : m \in {REQ_OP_WRITE, REQ_OP_SECURE_ERASE + REQ_PREFLUSH} }

\* one record of the listed disk carrying the bitmask m
RwbsEvent(m) ==
    [ts |-> MaxTs, comm |-> "dd", pid |-> 100, dev |-> DevSda, cmd_flags |-> m,
     sector |-> 2048, len |-> 4096, qdelta |-> 1000000, delta |-> 2000000]

\* the runs the decoder is exercised in: no device filter, no duration
RwbsEnvs == { e \in Envs : e.disk = "NULL" /\ e.duration = 0 /\ e.cg = e.queued }

\* descriptors open() can return for the cgroup path (0 when stdin is closed)
CgFds == {0, 3}

\* what the monotonic clock can advance by between two reads
ClockSteps == {NSEC_PER_SEC \div 2, NSEC_PER_SEC}

\* what the monotonic clock can show when main first reads it
StartClocks == {0, NSEC_PER_SEC \div 2}

VARIABLES
    pc,          \* where main is
    env,         \* struct env
    workload,    \* the records the traced system can produce in this run
    err,         \* main's err
    obj,         \* the skeleton: "NULL", "open" or "loaded"
    rodata,      \* obj->rodata, the instrumentation's configuration
    cgroup_map,  \* obj->maps.cgroup_map, slot 0: -1 (empty) or a descriptor
    links,       \* the hooks attached, in order
    partitions,  \* "NULL" or "table"
    ksyms,       \* "NULL" or "table"
    pb,          \* "NULL" or "buffer"
    cgfd,        \* main's cgfd
    handler,     \* whether sig_int is installed for SIGINT
    exiting,     \* the flag sig_int sets
    start_ts,    \* the baseline
    time_end,    \* the deadline
    now,         \* the last value get_ktime_ns returned
    poll_ret,    \* what perf_buffer__poll returned in this iteration (0 before)
    delivered,   \* whether a callback ran in the wait cycle in progress
    lost,        \* lost-event notifications so far
    out,         \* standard output, a sequence of lines
    diag,        \* standard error, a sequence of diagnostics
    dispatched,  \* the records handed to handle_event, in order
    acquired,    \* resources in order of acquisition
    released,    \* resources in order of release
    stop,        \* why main left its straight path ("none" until it does)
    exit_status  \* the process's exit status, -1 while it runs

vars == <<pc, env, workload, err, obj, rodata, cgroup_map, links, partitions, ksyms, pb,
          cgfd, handler, exiting, start_ts, time_end, now, poll_ret, delivered,
          lost, out, diag, dispatched, acquired, released, stop, exit_status>>

\* the variables the set-up steps of main never touch
loopVars == <<exiting, start_ts, poll_ret, delivered, lost, dispatched>>

\* the process when main is entered, env and the workload apart
Boot ==
    /\ pc = "open"
    /\ err = 0
    /\ obj = "NULL"
    /\ rodata = [targ_queued |-> FALSE, filter_cg |-> FALSE,
                 filter_dev |-> FALSE, targ_dev |-> 0]
    /\ cgroup_map = -1
    /\ links = <<>>
    /\ partitions = "NULL"
    /\ ksyms = "NULL"
    /\ pb = "NULL"
    /\ cgfd = -1
    /\ handler = FALSE
    /\ exiting = 0
    /\ start_ts = 0
    /\ time_end = 0
    /\ now = 0
    /\ poll_ret = 0
    /\ delivered = FALSE
    /\ lost = 0
    /\ out = <<>>
    /\ diag = <<>>
    /\ dispatched = <<>>
    /\ acquired = <<>>
    /\ released = <<>>
    /\ stop = "none"
    /\ exit_status = -1

Init ==
    /\ env \in Envs
    /\ workload \in Workloads(env)
    /\ Boot

(***************************************************************************)
(* main, set-up (lines 202-320).  Every step that can fail picks its       *)
(* outcome; a failure prints its diagnostic and jumps to cleanup.          *)
(***************************************************************************)
setupFrame == <<env, workload, handler, time_end, now, out, released, exit_status>>

\* one line on standard error; cnt and cpu are the arguments of the
\* lost-events message, 0 in every other
Diag(msg, cnt, cpu) == [msg |-> msg, cnt |-> cnt, cpu |-> cpu]

\* fprintf(stderr, ...); goto cleanup;
GotoCleanup(why, msg) ==
    /\ diag' = Append(diag, Diag(msg, 0, 0))
    /\ stop' = why
    /\ pc' = "cleanup"

\* obj = biosnoop_bpf__open(); a failure returns 1 at once
OpenObj ==
    /\ pc = "open"
    /\ \/ /\ obj' = "open"
          /\ acquired' = Append(acquired, "obj")
          /\ pc' = "load_partitions"
          /\ UNCHANGED <<diag, stop, exit_status>>
       \/ /\ diag' = Append(diag, Diag("failed to open BPF object", 0, 0))
          /\ stop' = "open"
          /\ exit_status' = 1
          /\ pc' = "done"
          /\ UNCHANGED <<obj, acquired>>
    /\ UNCHANGED <<env, workload, err, rodata, cgroup_map, links, partitions, ksyms, pb,
                   cgfd, handler, time_end, now, out, released>>
    /\ UNCHANGED loopVars

\* partitions = partitions__load();
LoadPartitions ==
    /\ pc = "load_partitions"
    /\ \/ /\ partitions' = "table"
          /\ acquired' = Append(acquired, "partitions")
          /\ pc' = "resolve_disk"
          /\ UNCHANGED <<diag, stop>>
       \/ /\ GotoCleanup("partitions", "failed to load partitions info")
          /\ UNCHANGED <<partitions, acquired>>
    /\ UNCHANGED <<err, obj, rodata, cgroup_map, links, ksyms, pb, cgfd>>
    /\ UNCHANGED setupFrame
    /\ UNCHANGED loopVars

\* lines 229-230: what main writes into obj->rodata before the load
SetRodata(rd, e, partition) ==
    [rd EXCEPT !.targ_queued = e.queued, !.filter_cg = e.cg]

\* if (env.disk) { partition = partitions__get_by_name(...); ... } and the
\* initialisation of the global data
ResolveDisk ==
    /\ pc = "resolve_disk"
    /\ LET partition == IF env.disk # "NULL"
                        THEN partitions__get_by_name(env.disk)
                        ELSE NoPartition
       IN IF env.disk # "NULL" /\ partition = NoPartition
          THEN /\ GotoCleanup("disk", "invaild partition name: not exist")
               /\ UNCHANGED rodata
          ELSE /\ rodata' = SetRodata(rodata, env, partition)
               /\ pc' = "load"
               /\ UNCHANGED <<diag, stop>>
    /\ UNCHANGED <<err, obj, cgroup_map, links, partitions, ksyms, pb, cgfd,
                   acquired>>
    /\ UNCHANGED setupFrame
    /\ UNCHANGED loopVars

\* err = biosnoop_bpf__load(obj);
LoadBpf ==
    /\ pc = "load"
    /\ \/ /\ err' = 0
          /\ obj' = "loaded"
          /\ pc' = "cgroup"
          /\ UNCHANGED <<diag, stop>>
       \/ /\ err' = -EINVAL
          /\ GotoCleanup("load", "failed to load BPF object")
          /\ UNCHANGED obj
    /\ UNCHANGED <<rodata, cgroup_map, links, partitions, ksyms, pb, cgfd,
                   acquired>>
    /\ UNCHANGED setupFrame
    /\ UNCHANGED loopVars

\* CgroupSetup without the bpf_map_update_elem taking effect
CgroupSetup_NotStored ==
    /\ pc = "cgroup"
    /\ IF env.cg
       THEN \E fd \in CgFds \cup {-1}, updated \in BOOLEAN :
              /\ cgfd' = fd
              /\ acquired' = IF fd >= 0 THEN Append(acquired, "cgfd")
                             ELSE acquired
              /\ IF fd < 0
                 THEN /\ GotoCleanup("cgopen", "Failed opening Cgroup path")
                      /\ UNCHANGED cgroup_map
                 ELSE IF ~updated
                 THEN /\ GotoCleanup("cgmap",
                                     "Failed adding target cgroup to map")
                      /\ UNCHANGED cgroup_map
                 ELSE /\ UNCHANGED cgroup_map
                      /\ pc' = "attach_start"
                      /\ UNCHANGED <<diag, stop>>
       ELSE /\ pc' = "attach_start"
            /\ UNCHANGED <<cgfd, acquired, cgroup_map, diag, stop>>
    /\ UNCHANGED <<err, obj, rodata, links, partitions, ksyms, pb>>
    /\ UNCHANGED setupFrame
    /\ UNCHANGED loopVars

\* if (env.cg) { cgfd = open(...); bpf_map_update_elem(...); }
CgroupSetup ==
    /\ pc = "cgroup"
    /\ IF env.cg
       THEN \E fd \in CgFds \cup {-1}, updated \in BOOLEAN :
              /\ cgfd' = fd
              /\ acquired' = IF fd >= 0 THEN Append(acquired, "cgfd")
                             ELSE acquired
              /\ IF fd < 0
                 THEN /\ GotoCleanup("cgopen", "Failed opening Cgroup path")
                      /\ UNCHANGED cgroup_map
                 ELSE IF ~updated
                 THEN /\ GotoCleanup("cgmap",
                                     "Failed adding target cgroup to map")
                      /\ UNCHANGED cgroup_map
                 ELSE /\ cgroup_map' = fd
                      /\ pc' = "attach_start"
                      /\ UNCHANGED <<diag, stop>>
       ELSE /\ pc' = "attach_start"
            /\ UNCHANGED <<cgfd, acquired, cgroup_map, diag, stop>>
    /\ UNCHANGED <<err, obj, rodata, links, partitions, ksyms, pb>>
    /\ UNCHANGED setupFrame
    /\ UNCHANGED loopVars

\* obj->links.X = bpf_program__attach(obj->progs.X); if (!obj->links.X) ...
AttachHook(at, hook, next) ==
    /\ pc = at
    /\ \/ /\ links' = Append(links, hook)
          /\ pc' = next
          /\ UNCHANGED <<err, diag, stop>>
       \/ /\ err' = -EINVAL
          /\ GotoCleanup(at, "failed to attach")
          /\ UNCHANGED links
    /\ UNCHANGED <<obj, rodata, cgroup_map, partitions, ksyms, pb, cgfd,
                   acquired>>
    /\ UNCHANGED setupFrame
    /\ UNCHANGED loopVars

\* a conditional attach whose condition is false
SkipHook(at, next) ==
    /\ pc = at
    /\ pc' = next
    /\ UNCHANGED <<err, diag, stop, links, obj, rodata, cgroup_map, partitions,
                   ksyms, pb, cgfd, acquired>>
    /\ UNCHANGED setupFrame
    /\ UNCHANGED loopVars

AttachStart == AttachHook("attach_start", "blk_account_io_start", "load_ksyms")

\* ksyms = ksyms__load();
LoadKsyms ==
    /\ pc = "load_ksyms"
    /\ \/ /\ ksyms' = "table"
          /\ acquired' = Append(acquired, "ksyms")
          /\ pc' = "attach_merge"
          /\ UNCHANGED <<err, diag, stop>>
       \/ /\ err' = -ENOMEM
          /\ GotoCleanup("ksyms", "failed to load kallsyms")
          /\ UNCHANGED <<ksyms, acquired>>
    /\ UNCHANGED <<obj, rodata, cgroup_map, links, partitions, pb, cgfd>>
    /\ UNCHANGED setupFrame
    /\ UNCHANGED loopVars

\* if (ksyms__get_symbol(ksyms, "blk_account_io_merge_bio")) attach it
AttachMerge ==
    \/ AttachHook("attach_merge", "blk_account_io_merge_bio", "attach_insert")
    \/ SkipHook("attach_merge", "attach_insert")

\* if (env.queued) attach block_rq_insert
AttachInsert ==
    \/ env.queued /\ AttachHook("attach_insert", "block_rq_insert", "attach_issue")
    \/ ~env.queued /\ SkipHook("attach_insert", "attach_issue")

AttachIssue == AttachHook("attach_issue", "block_rq_issue", "attach_complete")

AttachComplete == AttachHook("attach_complete", "block_rq_complete", "perf_buffer")

\* pb = perf_buffer__new(...);
NewPerfBuffer ==
    /\ pc = "perf_buffer"
    /\ \/ /\ pb' = "buffer"
          /\ acquired' = Append(acquired, "pb")
          /\ pc' = "header"
          /\ UNCHANGED <<err, diag, stop>>
       \/ /\ err' = -EINVAL
          /\ GotoCleanup("perf_buffer", "failed to open perf buffer")
          /\ UNCHANGED <<pb, acquired>>
    /\ UNCHANGED <<obj, rodata, cgroup_map, links, partitions, ksyms, cgfd>>
    /\ UNCHANGED setupFrame
    /\ UNCHANGED loopVars

\* HeaderLine without the QUE(ms) printf
HeaderLine_NoQueue(e) ==
    [kind |-> "header",
     cols |-> <<"TIME(s)", "COMM", "PID", "DISK", "T", "SECTOR", "BYTES",
                "LAT(ms)">>]

\* the three printf calls of lines 306-310: one header line
HeaderLine(e) ==
    [kind |-> "header",
     cols |-> <<"TIME(s)", "COMM", "PID", "DISK", "T", "SECTOR", "BYTES">>
              \o (IF e.queued THEN <<"QUE(ms)">> ELSE <<>>)
              \o <<"LAT(ms)">>]

\* get_ktime_ns() + env.duration * NSEC_PER_SEC, t being the clock reading
Deadline(t, duration) == t + duration * NSEC_PER_SEC

\* the header, then if (env.duration) time_end = get_ktime_ns() + ...
PrintHeader ==
    /\ pc = "header"
    /\ out' = Append(out, HeaderLine(env))
    /\ IF env.duration # 0
       THEN \E t \in StartClocks :
              /\ now' = t
              /\ time_end' = Deadline(t, env.duration)
       ELSE UNCHANGED <<now, time_end>>
    /\ pc' = "signal"
    /\ UNCHANGED <<env, workload, err, obj, rodata, cgroup_map, links, partitions, ksyms,
                   pb, cgfd, handler, diag, acquired, released, stop,
                   exit_status>>
    /\ UNCHANGED loopVars

\* if (signal(SIGINT, sig_int) == SIG_ERR) { ...; err = 1; goto cleanup; }
InstallSignal ==
    /\ pc = "signal"
    /\ \/ /\ handler' = TRUE
          /\ pc' = "loop"
          /\ UNCHANGED <<err, diag, stop>>
       \/ /\ err' = 1
          /\ GotoCleanup("signal_install", "can't set signal handler")
          /\ UNCHANGED handler
    /\ UNCHANGED <<env, workload, obj, rodata, cgroup_map, links, partitions, ksyms, pb,
                   cgfd, time_end, now, out, acquired, released, exit_status>>
    /\ UNCHANGED loopVars

(***************************************************************************)
(* The callbacks perf_buffer__poll runs.                                   *)
(***************************************************************************)
\* a value printed through a division: num / den
Ratio(num, den) == [num |-> num, den |-> den]

\* the records the instrumentation lets through (biosnoop.bpf.c: a record
\* of another device is dropped when filter_dev is set)
Admitted(e) == ~rodata.filter_dev \/ e.dev = rodata.targ_dev

\* if (!start_ts) start_ts = e->ts;
Baseline(base, e) == IF base = 0 THEN e.ts ELSE base

\* QueueColumn without the test for the sentinel
QueueColumn_AlwaysDivide(e) == Ratio(e.qdelta, MsDivisor)

\* e->qdelta != -1 ? e->qdelta / 1000000.0 : -1
QueueColumn(e) ==
    IF e.qdelta # -1 THEN Ratio(e.qdelta, MsDivisor) ELSE Ratio(-1, 1)

\* the three printf calls of handle_event: one data line
DataLine(e, base, queued) ==
    LET partition == partitions__get_by_dev(e.dev) IN
    [kind |-> "data",
     cols |-> << Ratio(SubU64(e.ts, base), SecDivisor),
                 e.comm, e.pid,
                 IF partition # NoPartition THEN partition.name ELSE "Unknown",
                 blk_fill_rwbs(e.cmd_flags),
                 e.sector, e.len >>
              \o (IF queued THEN <<QueueColumn(e)>> ELSE <<>>)
              \o <<Ratio(e.delta, MsDivisor)>>]

\* HandleEvent for a channel that is also drained once main is at cleanup
HandleEvent_AfterLoop ==
    /\ pc \in {"poll", "cleanup"}
    /\ Len(dispatched) < MaxEvents
    /\ \E e \in workload :
         /\ Admitted(e)
         /\ start_ts' = Baseline(start_ts, e)
         /\ out' = Append(out, DataLine(e, start_ts', env.queued))
         /\ dispatched' = Append(dispatched, e)
    /\ delivered' = TRUE
    /\ UNCHANGED <<pc, env, workload, err, obj, rodata, cgroup_map, links, partitions,
                   ksyms, pb, cgfd, handler, exiting, time_end, now, poll_ret,
                   lost, diag, acquired, released, stop, exit_status>>

\* handle_event, run by perf_buffer__poll for one record
HandleEvent ==
    /\ pc = "poll"
    /\ Len(dispatched) < MaxEvents
    /\ \E e \in workload :
         /\ Admitted(e)
         /\ start_ts' = Baseline(start_ts, e)
         /\ out' = Append(out, DataLine(e, start_ts', env.queued))
         /\ dispatched' = Append(dispatched, e)
    /\ delivered' = TRUE
    /\ UNCHANGED <<pc, env, workload, err, obj, rodata, cgroup_map, links, partitions,
                   ksyms, pb, cgfd, handler, exiting, time_end, now, poll_ret,
                   lost, diag, acquired, released, stop, exit_status>>

\* the counts a lost-events notification carries
LostCounts == {1, 7}

\* handle_lost_events, run by perf_buffer__poll for one overflow
HandleLostEvents ==
    /\ pc = "poll"
    /\ lost < MaxLost
    /\ \E lost_cnt \in LostCounts :
         diag' = Append(diag, Diag("lost events", lost_cnt, 0))
    /\ lost' = lost + 1
    /\ delivered' = TRUE
    /\ UNCHANGED <<pc, env, workload, err, obj, rodata, cgroup_map, links, partitions,
                   ksyms, pb, cgfd, handler, exiting, start_ts, time_end, now,
                   poll_ret, out, dispatched, acquired, released, stop,
                   exit_status>>

\* sig_int also breaking main out of its wait
SigInt_Abort ==
    /\ handler
    /\ pc # "done"
    /\ exiting' = 1
    /\ pc' = IF pc = "poll" THEN "loop" ELSE pc
    /\ delivered' = FALSE
    /\ UNCHANGED <<env, workload, err, obj, rodata, cgroup_map, links, partitions,
                   ksyms, pb, cgfd, handler, start_ts, time_end, now, poll_ret,
                   lost, out, diag, dispatched, acquired, released,
                   stop, exit_status>>

\* sig_int: exiting = 1
SigInt ==
    /\ handler
    /\ pc # "done"
    /\ exiting' = 1
    /\ UNCHANGED <<pc, env, workload, err, obj, rodata, cgroup_map, links, partitions,
                   ksyms, pb, cgfd, handler, start_ts, time_end, now, poll_ret,
                   delivered, lost, out, diag, dispatched, acquired, released,
                   stop, exit_status>>

(***************************************************************************)
(* main, the polling loop (lines 322-333) and cleanup (lines 335-343).     *)
(***************************************************************************)
\* while (!exiting)
LoopTest ==
    /\ pc = "loop"
    /\ IF exiting # 0
       THEN /\ pc' = "cleanup"
            /\ stop' = "signal"
            /\ UNCHANGED poll_ret
       ELSE /\ pc' = "poll"
            /\ poll_ret' = 0
            /\ UNCHANGED stop
    /\ UNCHANGED <<env, workload, err, obj, rodata, cgroup_map, links, partitions, ksyms,
                   pb, cgfd, handler, exiting, start_ts, time_end, now,
                   delivered, lost, out, diag, dispatched, acquired, released,
                   exit_status>>

\* what perf_buffer__poll can return: the number of ready buffers (one
\* buffer here) when a callback ran, 0 on a timeout and -EINTR when the wait
\* itself was interrupted, or another negative errno
PollResults(ran) ==
    {IF ran THEN 1 ELSE 0, -EBADF} \cup (IF ran THEN {} ELSE {-EINTR})

\* HardError without the test for -EINTR
HardError_AnyNegative(r) == r < 0

\* err < 0 && err != -EINTR
HardError(r) == r < 0 /\ r # -EINTR

\* AfterPoll without the reset of err at the end of the loop body
AfterPoll_NoReset(r, duration, t, deadline) ==
    IF HardError(r)
    THEN [pc |-> "cleanup", err |-> r, stop |-> "poll_error"]
    ELSE IF duration # 0 /\ t > deadline
    THEN [pc |-> "cleanup", err |-> r, stop |-> "duration"]
    ELSE [pc |-> "loop", err |-> r, stop |-> "none"]

\* AfterPoll looking at the deadline only after a wait that timed out
AfterPoll_DeadlineOnTimeout(r, duration, t, deadline) ==
    IF HardError(r)
    THEN [pc |-> "cleanup", err |-> r, stop |-> "poll_error"]
    ELSE IF r = 0 /\ duration # 0 /\ t > deadline
    THEN [pc |-> "cleanup", err |-> r, stop |-> "duration"]
    ELSE [pc |-> "loop", err |-> 0, stop |-> "none"]

\* the body of the loop after perf_buffer__poll returned r; t is what
\* get_ktime_ns returns if the deadline is looked at
AfterPoll(r, duration, t, deadline) ==
    IF HardError(r)
    THEN [pc |-> "cleanup", err |-> r, stop |-> "poll_error"]
    ELSE IF duration # 0 /\ t > deadline
    THEN [pc |-> "cleanup", err |-> r, stop |-> "duration"]
    ELSE [pc |-> "loop", err |-> 0, stop |-> "none"]

\* perf_buffer__poll returns; the rest of the loop body runs
PollReturn ==
    /\ pc = "poll"
    /\ \E r \in PollResults(delivered) :
         LET reads == ~HardError(r) /\ env.duration # 0
             clock == IF reads
                      THEN {now + d : d \in {c \in ClockSteps : c <= MaxClock - now}}
                      ELSE {now}
         IN \E t \in clock :
              LET after == AfterPoll(r, env.duration, t, time_end) IN
              /\ poll_ret' = r
              /\ delivered' = FALSE
              /\ now' = t
              /\ err' = after.err
              /\ pc' = after.pc
              /\ stop' = after.stop
              /\ diag' = IF HardError(r)
                         THEN Append(diag, Diag("error polling perf buffer", 0, 0))
                         ELSE diag
    /\ UNCHANGED <<env, workload, obj, rodata, cgroup_map, links, partitions, ksyms, pb,
                   cgfd, handler, exiting, start_ts, time_end, lost, out,
                   dispatched, acquired, released, exit_status>>

\* CleanupReleases in the reverse order of acquisition
CleanupReleases_Reverse(p, o, k, pt, fd) ==
       (IF p # "NULL" THEN <<"pb">> ELSE <<>>)
    \o (IF k # "NULL" THEN <<"ksyms">> ELSE <<>>)
    \o (IF fd > 0 THEN <<"cgfd">> ELSE <<>>)
    \o (IF pt # "NULL" THEN <<"partitions">> ELSE <<>>)
    \o (IF o # "NULL" THEN <<"obj">> ELSE <<>>)

\* the release calls of cleanup that release something, in order: the free
\* functions do nothing for NULL, and close is called only if (cgfd > 0)
CleanupReleases(p, o, k, pt, fd) ==
       (IF p # "NULL" THEN <<"pb">> ELSE <<>>)
    \o (IF o # "NULL" THEN <<"obj">> ELSE <<>>)
    \o (IF k # "NULL" THEN <<"ksyms">> ELSE <<>>)
    \o (IF pt # "NULL" THEN <<"partitions">> ELSE <<>>)
    \o (IF fd > 0 THEN <<"cgfd">> ELSE <<>>)

\* return err != 0;
ExitStatus(e) == IF e # 0 THEN 1 ELSE 0

Cleanup ==
    /\ pc = "cleanup"
    /\ released' = released \o CleanupReleases(pb, obj, ksyms, partitions, cgfd)
    /\ exit_status' = ExitStatus(err)
    /\ pc' = "done"
    /\ UNCHANGED <<env, workload, err, obj, rodata, cgroup_map, links, partitions, ksyms,
                   pb, cgfd, handler, exiting, start_ts, time_end, now,
                   poll_ret, delivered, lost, out, diag, dispatched, acquired,
                   stop>>

Next ==
    \/ OpenObj
    \/ LoadPartitions
    \/ ResolveDisk
    \/ LoadBpf
    \/ CgroupSetup
    \/ AttachStart
    \/ LoadKsyms
    \/ AttachMerge
    \/ AttachInsert
    \/ AttachIssue
    \/ AttachComplete
    \/ NewPerfBuffer
    \/ PrintHeader
    \/ InstallSignal
    \/ LoopTest
    \/ HandleEvent
    \/ HandleLostEvents
    \/ PollReturn
    \/ SigInt
    \/ Cleanup

Spec == Init /\ [][Next]_vars

\* the steps of main itself: it is scheduled, every library call returns and
\* perf_buffer__poll returns within its timeout
Main ==
    \/ OpenObj \/ LoadPartitions \/ ResolveDisk \/ LoadBpf \/ CgroupSetup
    \/ AttachStart \/ LoadKsyms \/ AttachMerge \/ AttachInsert \/ AttachIssue
    \/ AttachComplete \/ NewPerfBuffer \/ PrintHeader \/ InstallSignal
    \/ LoopTest \/ PollReturn \/ Cleanup

\* the runs with a duration configured, main making progress
InitDuration == Init /\ env.duration # 0
SpecDuration == InitDuration /\ [][Next]_vars /\ WF_vars(Main)

\* the runs of every env in which the traced system produces one record,
\* main making progress
InitSignal ==
    /\ env \in Envs
    /\ workload = OneRecord
    /\ Boot
SpecSignal == InitSignal /\ [][Next]_vars /\ WF_vars(Main)

\* the runs in which the traced system produces one record of any bitmask
InitRwbs ==
    /\ env \in RwbsEnvs
    /\ workload \in { {RwbsEvent(m)} : m \in CmdFlags }
    /\ Boot
SpecRwbs == InitRwbs /\ [][Next]_vars

(***************************************************************************)
(* Properties.                                                             *)
(***************************************************************************)
Range(q) == { q[i] : i \in 1..Len(q) }
Count(q, x) == Cardinality({ i \in 1..Len(q) : q[i] = x })
\* where x stands in q (q holds x once)
IndexOf(q, x) == CHOOSE i \in 1..Len(q) : q[i] = x

\* the set-up failures of main after which it jumps to cleanup
SetupErrors ==
    {"partitions", "disk", "cgopen", "cgmap", "load", "attach_start", "ksyms",
     "attach_merge", "attach_insert", "attach_issue", "attach_complete",
     "perf_buffer"}

\* C1: a run that the deadline check stops exits with status 0, whatever the
\* last perf_buffer__poll returned (a positive count, 0 or -EINTR).
C1_DurationStopExitsZero ==
    (pc = "done" /\ stop = "duration") => exit_status = 0

\* C2: every fatal set-up error (device table, disk name, cgroup path, cgroup
\* map, BPF load, a hook attach, ksyms, perf buffer) ends the run before the
\* polling loop with a non-zero exit status.
C2_SetupErrorExitsNonZero ==
    (pc = "done" /\ stop \in SetupErrors) =>
        /\ exit_status # 0
        /\ ~handler
        /\ dispatched = <<>>

\* C3: with -d DISK naming a listed device, the device's identifier is in the
\* instrumentation's filter configuration once the object is loaded, and
\* every record handed to handle_event is of that device.
C3_DeviceFilterApplied ==
    LET partition == partitions__get_by_name(env.disk) IN
    (env.disk # "NULL" /\ partition # NoPartition) =>
        /\ obj = "loaded" =>
              rodata.filter_dev /\ rodata.targ_dev = partition.dev
        /\ \A i \in 1..Len(dispatched) : dispatched[i].dev = partition.dev

\* C4: a run that ends because the loop condition saw the exiting flag exits
\* with status 0, also when the last wait returned a positive count or
\* -EINTR.
C4_SignalStopExitsZero ==
    (pc = "done" /\ stop = "signal") => exit_status = 0

C4_Witness ==
    /\ pc = "done"
    /\ stop = "signal"
    /\ poll_ret = 1
    /\ dispatched # <<>>
    /\ exit_status = 0

\* C5: when perf_buffer__poll returns a negative value other than -EINTR the
\* loop stops in that wait cycle with a non-zero exit status, no further
\* wait cycle starts and no further record is dispatched; -EINTR does not
\* take the error path.
C5_HardErrorIsFatal ==
    /\ []( (poll_ret < 0 /\ poll_ret # -EINTR) =>
              /\ pc \in {"cleanup", "done"}
              /\ stop = "poll_error"
              /\ err # 0
              /\ (pc = "done" => exit_status # 0) )
    /\ []( poll_ret = -EINTR => stop # "poll_error" )
    /\ [][ stop = "poll_error" =>
              /\ pc' \in {"cleanup", "done"}
              /\ dispatched' = dispatched
              /\ out' = out ]_vars

C5_Witness ==
    /\ pc = "done"
    /\ stop = "poll_error"
    /\ poll_ret = -EBADF
    /\ dispatched # <<>>
    /\ exit_status = 1

\* C6: the baseline start_ts equals the timestamp of the very first record
\* dispatched, whatever that timestamp is (0 included), and no later record
\* changes it.
C6_BaselineIsFirstTimestamp ==
    dispatched # <<>> => start_ts = dispatched[1].ts

\* C7: the relative time of every rendered record is its timestamp minus the
\* first record's, over 1e9: 0 for the first record, the difference for a
\* later record, and never a wrapped, huge value when a later record carries
\* a smaller timestamp than the first.
\* (Stated for a first timestamp other than 0; C6 is about a first timestamp
\* of 0.)
C7_RelativeTimeIsDifference ==
    (dispatched # <<>> /\ dispatched[1].ts # 0) =>
        \A i \in 1..Len(dispatched) :
            LET time == out[i + 1].cols[1]
                d == dispatched[i].ts - dispatched[1].ts
            IN /\ time.den = SecDivisor
               /\ d >= 0 => time.num = d
               /\ d < 0 => time.num \in 0..dispatched[1].ts

\* C8: on every exit path after the BPF object was opened, each resource
\* acquired (perf buffer, BPF object, ksyms table, device table, cgroup
\* descriptor of any value, 0 included) is released exactly once before the
\* process returns.
C8_AllReleasedOnce ==
    (pc = "done" /\ stop # "open") =>
        \A r \in {"pb", "obj", "ksyms", "partitions", "cgfd"} :
            Count(released, r) = Count(acquired, r)

\* C9 as claimed: on every exit path the releases happen in the opposite
\* order of the acquisitions.
C9_ReverseOfAcquisition ==
    pc = "done" =>
        \A i, j \in 1..Len(released) :
            i < j => IndexOf(acquired, released[i]) > IndexOf(acquired, released[j])

\* the order in which cleanup releases
CleanupOrder == <<"pb", "obj", "ksyms", "partitions", "cgfd">>

\* C9 as amended: nothing is released before cleanup, and cleanup releases
\* what was acquired in one fixed order on every exit path (perf buffer, BPF
\* object, ksyms table, device table, cgroup descriptor when it is > 0),
\* which is not the reverse of the order of acquisition.
C9_FixedReleaseOrder ==
    LET held(r) == r \in Range(acquired) /\ (r = "cgfd" => cgfd > 0) IN
    /\ pc # "done" => released = <<>>
    /\ (pc = "done" /\ stop # "open") => released = SelectSeq(CleanupOrder, held)

C9_Witness ==
    /\ pc = "done"
    /\ acquired = <<"obj", "partitions", "cgfd", "ksyms", "pb">>
    /\ released = CleanupOrder

\* C10: a run that fails before the polling loop is entered (a set-up error,
\* or the SIGINT handler cannot be installed) has written nothing to
\* standard output, not even the header line, when the process exits.
C10_NoOutputOnSetupError ==
    (pc = "done" /\ stop \in SetupErrors \cup {"open", "signal_install"}) =>
        out = <<>>

\* C11: with a duration of N seconds the deadline is the clock at set-up plus
\* N * 1e9 ns; the deadline is looked at after every wait cycle that did not
\* fail, so no wait cycle starts once a reading is past the deadline; no
\* record is dispatched after the deadline check fired; and the run reaches
\* termination.
C11_DurationBoundsRun ==
    /\ [][ (pc = "header" /\ env.duration # 0) =>
              time_end' = now' + env.duration * NSEC_PER_SEC ]_vars
    /\ []( (env.duration # 0 /\ pc \in {"loop", "poll"}) => now <= time_end )
    /\ [][ (env.duration # 0 /\ pc = "poll" /\ pc' = "loop") => now' > now ]_vars
    /\ [][ stop = "duration" =>
              /\ pc' \in {"cleanup", "done"}
              /\ dispatched' = dispatched
              /\ out' = out ]_vars
    /\ (env.duration # 0) ~> (pc = "done")

C11_Witness ==
    /\ pc = "done"
    /\ stop = "duration"
    /\ now > time_end
    /\ time_end = NSEC_PER_SEC \div 2 + env.duration * NSEC_PER_SEC
    /\ dispatched # <<>>

\* C12: a lost-events notification of any count writes one diagnostic to
\* standard error and nothing else (no line on standard output, start_ts,
\* exiting and err as they were, main still in its wait), and a wait cycle in
\* which only such notifications were delivered and which did not fail leaves
\* err at 0 and goes back to the loop test unless the deadline has passed.
C12_OverflowIsRecoverable ==
    [][ /\ lost' # lost =>
              /\ Len(diag') = Len(diag) + 1
              /\ diag'[Len(diag')].msg = "lost events"
              /\ out' = out
              /\ start_ts' = start_ts
              /\ exiting' = exiting
              /\ err' = err
              /\ pc' = pc
        /\ (pc = "poll" /\ delivered /\ dispatched = <<>> /\ pc' # "poll"
                /\ ~HardError(poll_ret')) =>
              /\ err' = 0
              /\ pc' = "loop" \/ stop' = "duration" ]_vars

\* the longest combination: pre-flush, secure erase, FUA, read-ahead, sync
\* and meta
LongestCmdFlags ==
    REQ_PREFLUSH + REQ_OP_SECURE_ERASE + REQ_FUA + REQ_RAHEAD + REQ_SYNC + REQ_META

\* C13: for every bitmask blk_fill_rwbs writes at least one and at most 8
\* characters, and its last write, the NUL at index i, is inside the
\* RWBS_LEN bytes of the buffer handle_event passes; the T column of the
\* line is the string written.
C13_RwbsFitsBuffer ==
    \A k \in 1..Len(dispatched) :
        LET op == dispatched[k].cmd_flags
            rwbs == out[k + 1].cols[5]
        IN /\ Len(rwbs) >= 1
           /\ Len(rwbs) <= 8
           /\ Len(rwbs) = RwbsNulIndex(op)
           /\ RwbsNulIndex(op) <= RWBS_LEN - 1

C13_Witness ==
    /\ dispatched # <<>>
    /\ dispatched[1].cmd_flags = LongestCmdFlags
    /\ Len(out[2].cols[5]) = 7
    /\ RwbsNulIndex(LongestCmdFlags) = RWBS_LEN - 1

\* the character sequence of a string of the claim
Str1(a) == <<a>>
\* bit n of the bitmask m
Bit(m, n) == (m \div 2^n) % 2

\* C14: for every bitmask the string of the T column is the concatenation,
\* in this order, of 'F' if pre-flush; the code of the masked operation
\* (write or write-same 'W', discard 'D', secure erase 'DE', flush 'F', read
\* 'R', anything else 'N'); 'F' if FUA; 'A' if read-ahead; 'S' if sync; 'M'
\* if meta.  Write alone gives "W", write+FUA+sync "WFS", pre-flush+read
\* "FR", secure erase alone "DE", an operation without a code "N".
C14_RwbsIsConcatenation ==
    \A k \in 1..Len(dispatched) :
        LET m == dispatched[k].cmd_flags
            rwbs == out[k + 1].cols[5]
            class == m % 256
            code == IF class \in {REQ_OP_WRITE, REQ_OP_WRITE_SAME} THEN <<"W">>
                    ELSE IF class = REQ_OP_DISCARD THEN <<"D">>
                    ELSE IF class = REQ_OP_SECURE_ERASE THEN <<"D", "E">>
                    ELSE IF class = REQ_OP_FLUSH THEN <<"F">>
                    ELSE IF class = REQ_OP_READ THEN <<"R">>
                    ELSE <<"N">>
            opt(n, c) == IF Bit(m, n) = 1 THEN Str1(c) ELSE <<>>
        IN /\ rwbs = opt(18, "F") \o code \o opt(17, "F") \o opt(19, "A")
                       \o opt(11, "S") \o opt(12, "M")
           /\ m = REQ_OP_WRITE => rwbs = <<"W">>
           /\ m = REQ_OP_WRITE + REQ_FUA + REQ_SYNC => rwbs = <<"W", "F", "S">>
           /\ m = REQ_PREFLUSH + REQ_OP_READ => rwbs = <<"F", "R">>
           /\ m = REQ_OP_SECURE_ERASE => rwbs = <<"D", "E">>
           /\ m = 4 => rwbs = <<"N">>

C14_Witness ==
    /\ Len(dispatched) = 1
    /\ dispatched[1].cmd_flags = REQ_OP_WRITE + REQ_FUA + REQ_RAHEAD + REQ_SYNC
    /\ out[2].cols[5] = <<"W", "F", "A", "S">>

\* the reasons for which main leaves the polling loop
LoopStops == {"signal", "duration", "poll_error"}

\* main has entered the polling loop in this run
EnteredLoop == pc \in {"loop", "poll"} \/ stop \in LoopStops

\* the columns of a data line that name its record
LineOf(e) == <<e.comm, e.pid, blk_fill_rwbs(e.cmd_flags), e.sector, e.len>>
RecordOf(line) ==
    <<line.cols[2], line.cols[3], line.cols[5], line.cols[6], line.cols[7]>>

\* C15: in a run that enters the polling loop, standard output is the header
\* line followed by one data line per record handed to handle_event, in the
\* order of delivery; nothing is written before the header; every delivery
\* appends exactly its line; and nothing is written once the loop stopped.
C15_HeaderThenLinesInOrder ==
    /\ []( EnteredLoop =>
             /\ Len(out) = Len(dispatched) + 1
             /\ out[1] = HeaderLine(env)
             /\ \A k \in 1..Len(dispatched) :
                   /\ out[k + 1].kind = "data"
                   /\ RecordOf(out[k + 1]) = LineOf(dispatched[k]) )
    /\ []( ~EnteredLoop => dispatched = <<>> /\ Len(out) <= 1 )
    /\ [][ dispatched' # dispatched =>
              /\ Len(dispatched') = Len(dispatched) + 1
              /\ Len(out') = Len(out) + 1
              /\ SubSeq(out', 1, Len(out)) = out ]_vars
    /\ [][ (pc \in {"cleanup", "done"}) =>
              /\ out' = out
              /\ dispatched' = dispatched ]_vars

C15_Witness ==
    /\ pc = "done"
    /\ stop = "signal"
    /\ Len(dispatched) = 2
    /\ dispatched[1].comm = "jbd2"
    /\ dispatched[2].comm = "dd"
    /\ out[2].cols[2] = "jbd2"
    /\ out[3].cols[2] = "dd"

\* what "%7.3f" shows of a printed value, in thousandths (fractions of a
\* thousandth dropped)
Thousandths(r) ==
    IF r.den >= 1000 THEN r.num \div (r.den \div 1000) ELSE r.num * (1000 \div r.den)

\* C16: with -Q, the queue column of a record whose qdelta is the sentinel -1
\* is the value -1, not divided, shown as -1.000; the queue column of every
\* other record is qdelta / 1000000.
C16_QueueSentinelRendered ==
    env.queued =>
        \A k \in 1..Len(dispatched) :
            LET e == dispatched[k]
                que == out[k + 1].cols[8]
            IN /\ e.qdelta = -1 =>
                    /\ que.num = -1
                    /\ que.den = 1
                    /\ Thousandths(que) = -1000
               /\ e.qdelta # -1 =>
                    /\ que.num = e.qdelta
                    /\ que.den = 1000000

C16_Witness ==
    /\ env.queued
    /\ Len(dispatched) = 2
    /\ dispatched[1].qdelta = -1
    /\ dispatched[2].qdelta = 1000000
    /\ Thousandths(out[2].cols[8]) = -1000
    /\ Thousandths(out[3].cols[8]) = 1000

\* every variable but the exiting flag
exceptExiting ==
    <<pc, env, workload, err, obj, rodata, cgroup_map, links, partitions, ksyms, pb,
      cgfd, handler, start_ts, time_end, now, poll_ret, delivered, lost, out,
      diag, dispatched, acquired, released, stop, exit_status>>

\* C17: sig_int does nothing but set exiting to 1, and nothing clears the
\* flag; once it is set the wait in progress still delivers and renders its
\* records, the loop test starts no further wait, and main, whose poll
\* always returns, goes on through cleanup to termination.
C17_InterruptStopsLoop ==
    /\ [][ exiting' # exiting =>
              /\ handler
              /\ exiting' = 1
              /\ exceptExiting' = exceptExiting ]_vars
    /\ [][ exiting = 1 =>
              /\ exiting' = 1
              /\ ~(pc = "loop" /\ pc' = "poll")
              /\ (pc = "loop" /\ pc' # "loop") => (pc' = "cleanup" /\ stop' = "signal")
              /\ dispatched' # dispatched =>
                    /\ pc = "poll"
                    /\ Len(out') = Len(out) + 1
                    /\ RecordOf(out'[Len(out')]) = LineOf(dispatched'[Len(dispatched')])
         ]_vars
    /\ (exiting = 1) ~> (pc = "done")

C17_Witness ==
    /\ pc = "done"
    /\ stop = "signal"
    /\ exiting = 1
    /\ Len(dispatched) = 2
    /\ Len(out) = 3
    /\ poll_ret = 1
    /\ exit_status = 0

\* the set-up failures of the cgroup scope
CgroupErrors == {"cgopen", "cgmap"}

\* C18: with -c, whenever a hook is attached (and so whenever a record is
\* dispatched) the cgroup path has been opened, its descriptor is in slot 0
\* of cgroup_map and filter_cg is set; in a run where open or
\* bpf_map_update_elem failed no hook is ever attached and no record is
\* dispatched.
C18_ScopeBeforeHooks ==
    /\ (env.cg /\ (links # <<>> \/ dispatched # <<>>)) =>
          /\ cgfd >= 0
          /\ cgroup_map = cgfd
          /\ rodata.filter_cg
    /\ stop \in CgroupErrors =>
          /\ env.cg
          /\ links = <<>>
          /\ dispatched = <<>>
          /\ pc \in {"cleanup", "done"}

C18_Witness ==
    /\ env.cg
    /\ env.queued
    /\ Len(links) = 5
    /\ cgfd = 0
    /\ cgroup_map = 0
    /\ dispatched # <<>>

\* every line of standard output has n columns when -Q is given and m
\* otherwise; the header names QUE(ms) exactly when -Q is given, and then
\* every data line carries the queue value in that column; the last column
\* of the header is LAT(ms) and that of a data line the record's latency
SameColumns(n, m) ==
    \A i \in 1..Len(out) :
        LET cols == out[i].cols
            width == IF env.queued THEN n ELSE m
        IN /\ Len(cols) = width
           /\ Len(cols) = Len(out[1].cols)
           /\ i = 1 =>
                 /\ out[i].kind = "header"
                 /\ ("QUE(ms)" \in Range(cols)) = env.queued
                 /\ env.queued => cols[width - 1] = "QUE(ms)"
                 /\ cols[width] = "LAT(ms)"
           /\ i > 1 =>
                 /\ out[i].kind = "data"
                 /\ env.queued => cols[width - 1] = QueueColumn(dispatched[i - 1])
                 /\ cols[width] = Ratio(dispatched[i - 1].delta, MsDivisor)

\* C19 as claimed: header and data lines have the same columns, QUE(ms) in
\* the header if and only if in every data line and LAT(ms) in every line:
\* 8 columns with -Q, 7 without.
C19_SameColumns_8_7 == SameColumns(8, 7)

\* C19 as amended: header and data lines have the same columns, QUE(ms) in
\* the header if and only if in every data line and LAT(ms) in every line:
\* 9 columns with -Q (TIME(s) COMM PID DISK T SECTOR BYTES QUE(ms) LAT(ms)),
\* 8 without.
C19_SameColumns_9_8 == SameColumns(9, 8)

C19_Witness ==
    /\ env.queued
    /\ Len(out) = 3
    /\ Len(out[1].cols) = 9
    /\ out[1].cols[8] = "QUE(ms)"
    /\ Len(out[2].cols) = 9
    /\ out[2].cols[8] = Ratio(-1, 1)
    /\ out[3].cols[8] = Ratio(1000000, MsDivisor)

====
